---- MODULE Spec2Model ----
(***************************************************************************)
(* md2gemini: the conversion entry point md2gemini() of                    *)
(* src/md2gemini/__init__.py, as a state machine over tokenised text.      *)
(*                                                                         *)
(* A text is a sequence of tokens.  One token stands for one unit the code *)
(* compares as a whole: "CRLF" is the string "\r\n", "LF" is "\n", " " is a *)
(* whitespace character that is no line break, "PD" and "LD" are the        *)
(* paragraph and link delimiters, "=>" and "FENCE" are the link prefix and *)
(* the three-backtick fence prefix tested by startswith, "---" and "+++"   *)
(* are the front matter delimiter lines, and "a" is any other character.   *)
(***************************************************************************)
EXTENDS Naturals, Integers, Sequences, FiniteSets

VARIABLES
    input,        \* the markdown argument as passed by the caller
    frontmatter,  \* argument frontmatter
    jekyll,       \* argument jekyll
    links,        \* argument links
    rendered,     \* what the renderer returns for a document that is not blank
    footnotes,    \* what renderer._render_footnotes() returns
    markdown,     \* local variable markdown (reassigned at line 74)
    gemtext,      \* local variable gemtext
    gemlines,     \* local variable gemlines
    pc            \* position in md2gemini; "error" is a raised exception

vars == <<input, frontmatter, jekyll, links, rendered, footnotes,
          markdown, gemtext, gemlines, pc>>

-----------------------------------------------------------------------------
(* Tokens and constants imported from .renderers *)

PARAGRAPH_DELIM == "PD"
LINK_DELIM == "LD"
NEWLINE == <<"CRLF">>

LineBreaks == {"LF", "CRLF"}
Whitespace == {" ", "LF", "CRLF"}
LinkModes == {"off", "newline", "paragraph", "at-end"}

-----------------------------------------------------------------------------
(* Python string primitives *)

Count(s, t) == Cardinality({i \in DOMAIN s : s[i] = t})

Contains(s, t) == \E i \in DOMAIN s : s[i] = t

FirstIndex(s, S) == CHOOSE i \in DOMAIN s :
                        /\ s[i] \in S
                        /\ \A j \in 1..(i-1) : s[j] \notin S

\* str.lstrip()
RECURSIVE LStrip(_)
LStrip(s) == IF s # <<>> /\ Head(s) \in Whitespace THEN LStrip(Tail(s)) ELSE s

\* str.rstrip()
RECURSIVE RStrip(_)
RStrip(s) == IF s # <<>> /\ s[Len(s)] \in Whitespace
             THEN RStrip(SubSeq(s, 1, Len(s) - 1)) ELSE s

\* str.strip()
Strip(s) == RStrip(LStrip(s))

\* str.split(delim), delim a single token
RECURSIVE Split(_, _)
Split(s, d) ==
    IF ~Contains(s, d) THEN <<s>>
    ELSE LET i == FirstIndex(s, {d})
         IN  <<SubSeq(s, 1, i - 1)>> \o Split(SubSeq(s, i + 1, Len(s)), d)

\* sep.join(parts), sep a text
RECURSIVE Join(_, _)
Join(sep, parts) ==
    IF parts = <<>> THEN <<>>
    ELSE IF Len(parts) = 1 THEN parts[1]
    ELSE parts[1] \o sep \o Join(sep, Tail(parts))

\* str.splitlines(): a final line break opens no further line
RECURSIVE SplitLines(_)
SplitLines(s) ==
    IF s = <<>> THEN <<>>
    ELSE IF \A i \in DOMAIN s : s[i] \notin LineBreaks THEN <<s>>
    ELSE LET i == FirstIndex(s, LineBreaks)
         IN  <<SubSeq(s, 1, i - 1)>> \o SplitLines(SubSeq(s, i + 1, Len(s)))

\* str.replace(old, new), old a single token, new a text
RECURSIVE Replace(_, _, _)
Replace(s, old, new) ==
    IF s = <<>> THEN <<>>
    ELSE (IF Head(s) = old THEN new ELSE <<Head(s)>>) \o Replace(Tail(s), old, new)

\* str.startswith(prefix), prefix a single token
StartsWith(line, prefix) == line # <<>> /\ Head(line) = prefix

-----------------------------------------------------------------------------
(* Helpers of the module *)

\* Python slice text.split(delim)[a:b] on a list, 0-based, clipped
Slice(parts, a, b) ==
    LET hi == IF b < Len(parts) THEN b ELSE Len(parts)
    IN  IF a >= hi THEN <<>> ELSE SubSeq(parts, a + 1, hi)

text_between(text, delim, n) == Split(text, delim)[n + 2]

replace_between(text, delim, new_text, n) ==
    LET parts == Split(text, delim)
        start == Join(<<delim>>, Slice(parts, 0, n + 1))
        end   == Join(<<delim>>, Slice(parts, n + 2, Len(parts)))
    IN  start \o new_text \o end

-----------------------------------------------------------------------------
(* Pre-processing: front matter removal, lines 54-74 *)

\* lines = markdown.strip().splitlines()
FrontMatterLines(md) == SplitLines(Strip(md))

\* the lookup lines[0] raises IndexError on an empty list
RaisesIndexError(md, fm, jk) == (fm \/ jk) /\ FrontMatterLines(md) = <<>>

frontmatterExists(lines, fm, jk) ==
    IF fm THEN lines[1] = <<"---">> \/ lines[1] = <<"+++">>
    ELSE IF jk THEN lines[1] = <<"---">>
    ELSE FALSE

\* the condition of line 67
IsClosing(line, fm, jk) ==
    ((fm \/ jk) /\ line = <<"---">>) \/ (fm /\ line = <<"+++">>)

\* md_lines as a loop that keeps the lines below the opening line when it finds
\* no closing line
md_lines_unclosed(lines, fm, jk) ==
    IF \E j \in 2..Len(lines) : IsClosing(lines[j], fm, jk)
    THEN LET j == CHOOSE j \in 2..Len(lines) :
                      /\ IsClosing(lines[j], fm, jk)
                      /\ \A k \in 2..(j-1) : ~IsClosing(lines[k], fm, jk)
         IN  Slice(lines, j, Len(lines))
    ELSE Slice(lines, 1, Len(lines))

\* md_lines after the loop of lines 65-70
md_lines(lines, fm, jk) ==
    IF \E j \in 2..Len(lines) : IsClosing(lines[j], fm, jk)
    THEN LET j == CHOOSE j \in 2..Len(lines) :
                      /\ IsClosing(lines[j], fm, jk)
                      /\ \A k \in 2..(j-1) : ~IsClosing(lines[k], fm, jk)
         IN  Slice(lines, j, Len(lines))
    ELSE <<>>

\* the value of markdown after line 74
StripFrontMatter(md, fm, jk) ==
    LET lines == FrontMatterLines(md)
    IN  IF frontmatterExists(lines, fm, jk) /\ md_lines(lines, fm, jk) # <<>>
        THEN Join(<<"LF">>, md_lines(lines, fm, jk))
        ELSE md

-----------------------------------------------------------------------------
(* Conversion, lines 77-79: the renderer is an external collaborator *)

IsBlank(md) == \A i \in DOMAIN md : md[i] \in Whitespace

Render(md, out) == IF IsBlank(md) THEN <<>> ELSE out

-----------------------------------------------------------------------------
(* Post-processing *)

\* the paragraph text without the normalisation of line 86
ParagraphTextOnlyLF(between) ==
    LET pg0 == Strip(between)
        pg2 == Replace(pg0, "LF", <<" ">>)
    IN  pg2 \o NEWLINE \o NEWLINE

\* lines 85-88: the text that replaces one paragraph
ParagraphText(between) ==
    LET pg0 == Strip(between)
        pg1 == Replace(pg0, "CRLF", <<"LF">>)
        pg2 == Replace(pg1, "LF", <<" ">>)
    IN  pg2 \o NEWLINE \o NEWLINE

\* one iteration of the loop of lines 84-89
ResolveParagraph(text) ==
    replace_between(text, PARAGRAPH_DELIM,
                    ParagraphText(text_between(text, PARAGRAPH_DELIM, 0)), 0)

\* lines 92-93
AppendFootnotes(text, mode, notes) ==
    IF mode = "at-end" THEN text \o NEWLINE \o notes \o NEWLINE ELSE text

\* line 96: str.replace(LINK_DELIM + LINK_DELIM, LINK_DELIM), one pass, left to
\* right, over non-overlapping occurrences
RECURSIVE CollapseLinkDelims(_)
CollapseLinkDelims(text) ==
    IF Len(text) < 2 THEN text
    ELSE IF text[1] = LINK_DELIM /\ text[2] = LINK_DELIM
         THEN <<LINK_DELIM>> \o CollapseLinkDelims(SubSeq(text, 3, Len(text)))
         ELSE <<text[1]>> \o CollapseLinkDelims(Tail(text))

\* line 100: re.sub deletes each LINK_DELIM that follows "\n" (the last character
\* of either line break) or precedes "\r\n" or "\n"; the lookarounds read the
\* text as it was before the substitution
Pruned(text, i) ==
    /\ text[i] = LINK_DELIM
    /\ \/ i > 1 /\ text[i-1] \in LineBreaks
       \/ i < Len(text) /\ text[i+1] \in LineBreaks

RECURSIVE KeepFrom(_, _)
KeepFrom(text, i) ==
    IF i > Len(text) THEN <<>>
    ELSE (IF Pruned(text, i) THEN <<>> ELSE <<text[i]>>) \o KeepFrom(text, i + 1)

PruneLinkDelims(text) == KeepFrom(text, 1)

\* line 101 with a replace that stops after the first occurrence
RECURSIVE ReplaceFirst(_, _, _)
ReplaceFirst(s, old, new) ==
    IF s = <<>> THEN <<>>
    ELSE IF Head(s) = old THEN new \o Tail(s)
    ELSE <<Head(s)>> \o ReplaceFirst(Tail(s), old, new)

MaterializeFirstOnly(text) == ReplaceFirst(text, LINK_DELIM, NEWLINE)

\* line 101
MaterializeLinkDelims(text) == Replace(text, LINK_DELIM, NEWLINE)

\* lines 105-106
DropLastEmpty(lines) ==
    IF lines[Len(lines)] = <<>> THEN SubSeq(lines, 1, Len(lines) - 1) ELSE lines

\* the loop of lines 107-116 without the test of pre at line 114
RECURSIVE CleanLoopIgnoringPre(_, _, _)
CleanLoopIgnoringPre(lines, i, pre) ==
    IF i > Len(lines) THEN lines
    ELSE IF StartsWith(lines[i], "FENCE")
         THEN CleanLoopIgnoringPre(lines, i + 1, ~pre)
    ELSE IF i + 1 < Len(lines) /\ StartsWith(lines[i], "=>")
         THEN CleanLoopIgnoringPre([lines EXCEPT ![i + 1] = LStrip(@)], i + 1, pre)
         ELSE CleanLoopIgnoringPre(lines, i + 1, pre)

\* lines 107-116: the loop over enumerate(gemlines); i is 1-based here, so the
\* guard i0+1 < length-1 of line 114 reads i + 1 < Len(lines)
RECURSIVE CleanLoop(_, _, _)
CleanLoop(lines, i, pre) ==
    IF i > Len(lines) THEN lines
    ELSE IF StartsWith(lines[i], "FENCE") THEN CleanLoop(lines, i + 1, ~pre)
    ELSE IF i + 1 < Len(lines) /\ StartsWith(lines[i], "=>") /\ ~pre
         THEN CleanLoop([lines EXCEPT ![i + 1] = LStrip(@)], i + 1, pre)
         ELSE CleanLoop(lines, i + 1, pre)

-----------------------------------------------------------------------------
(* The steps of md2gemini *)

Args == <<input, frontmatter, jekyll, links, rendered, footnotes>>

\* lines 54-74
DoFrontMatter ==
    /\ pc = "frontmatter"
    /\ IF RaisesIndexError(markdown, frontmatter, jekyll)
       THEN pc' = "error" /\ UNCHANGED markdown
       ELSE /\ markdown' = StripFrontMatter(markdown, frontmatter, jekyll)
            /\ pc' = "render"
    /\ UNCHANGED <<Args, gemtext, gemlines>>

\* lines 77-79
DoRender ==
    /\ pc = "render"
    /\ gemtext' = Render(markdown, rendered)
    /\ pc' = "paragraphs"
    /\ UNCHANGED <<Args, markdown, gemlines>>

\* lines 84-89, one iteration
DoParagraph ==
    /\ pc = "paragraphs"
    /\ Contains(gemtext, PARAGRAPH_DELIM)
    /\ gemtext' = ResolveParagraph(gemtext)
    /\ UNCHANGED <<Args, markdown, gemlines, pc>>

\* loop exit and lines 92-93
DoFootnotes ==
    /\ pc = "paragraphs"
    /\ ~Contains(gemtext, PARAGRAPH_DELIM)
    /\ gemtext' = AppendFootnotes(gemtext, links, footnotes)
    /\ pc' = "collapse"
    /\ UNCHANGED <<Args, markdown, gemlines>>

\* line 96
DoCollapse ==
    /\ pc = "collapse"
    /\ gemtext' = CollapseLinkDelims(gemtext)
    /\ pc' = "prune"
    /\ UNCHANGED <<Args, markdown, gemlines>>

\* line 100
DoPrune ==
    /\ pc = "prune"
    /\ gemtext' = PruneLinkDelims(gemtext)
    /\ pc' = "materialize"
    /\ UNCHANGED <<Args, markdown, gemlines>>

\* line 101
DoMaterialize ==
    /\ pc = "materialize"
    /\ gemtext' = MaterializeLinkDelims(gemtext)
    /\ pc' = "splitlines"
    /\ UNCHANGED <<Args, markdown, gemlines>>

\* lines 104-106: gemlines[-1] raises IndexError on an empty list
DoSplitLines ==
    /\ pc = "splitlines"
    /\ IF SplitLines(gemtext) = <<>>
       THEN pc' = "error" /\ UNCHANGED gemlines
       ELSE /\ gemlines' = DropLastEmpty(SplitLines(gemtext))
            /\ pc' = "cleanup"
    /\ UNCHANGED <<Args, markdown, gemtext>>

\* lines 107-119
DoCleanup ==
    /\ pc = "cleanup"
    /\ gemlines' = CleanLoop(gemlines, 1, FALSE)
    /\ gemtext' = Join(NEWLINE, gemlines')
    /\ pc' = "done"
    /\ UNCHANGED <<Args, markdown>>

Next ==
    \/ DoFrontMatter
    \/ DoRender
    \/ DoParagraph
    \/ DoFootnotes
    \/ DoCollapse
    \/ DoPrune
    \/ DoMaterialize
    \/ DoSplitLines
    \/ DoCleanup

-----------------------------------------------------------------------------
(* Initial states: the arguments of one call *)

SeqsUpTo(S, n) == UNION {[1..k -> S] : k \in 0..n}

FootnoteBlocks == {<<>>, <<"=>", "a">>}

InitCall(docs, flags, modes, texts) ==
    /\ input \in docs
    /\ frontmatter \in flags
    /\ jekyll \in flags
    /\ links \in modes
    /\ rendered \in texts
    /\ footnotes \in (IF links = "at-end" THEN FootnoteBlocks ELSE {<<>>})
    /\ markdown = input
    /\ gemtext = <<>>
    /\ gemlines = <<>>
    /\ pc = "frontmatter"

\* paragraph resolution: any placement of paragraph delimiters
MaxParaLen == 6
ParaAlphabet == {"a", " ", "LF", "CRLF", PARAGRAPH_DELIM}
InitPara == InitCall({<<"a">>}, {FALSE}, {"newline"},
                     SeqsUpTo(ParaAlphabet, MaxParaLen))
SpecPara == InitPara /\ [][Next]_vars

\* front matter removal: documents of a few lines, joined by "\n"
MaxDocLines == 3
DocLines == {<<>>, <<"---">>, <<"+++">>, <<"a">>}
Documents == {Join(<<"LF">>, ls) : ls \in SeqsUpTo(DocLines, MaxDocLines)}
InitFrontMatter == InitCall(Documents, BOOLEAN, LinkModes,
                            {<<PARAGRAPH_DELIM, "a", PARAGRAPH_DELIM>>})
SpecFrontMatter == InitFrontMatter /\ [][Next]_vars

\* sentinel resolution: any placement of both delimiters, every link mode
MaxTextLen == 5
TextAlphabet == {"a", "LF", "CRLF", PARAGRAPH_DELIM, LINK_DELIM}
InitSentinel == InitCall({<<"a">>}, {FALSE}, LinkModes,
                         SeqsUpTo(TextAlphabet, MaxTextLen))
SpecSentinel == InitSentinel /\ [][Next]_vars

\* whitespace cleanup: rendered lines joined by NEWLINE, after an optional
\* paragraph; fences, link lines, indented lines, empty lines and a text line
\* with a link between link delimiters.  Fenced content carries no delimiter.
MaxGemLines == 4
GemLines == {<<"FENCE">>, <<"=>", "a">>, <<" ", "a">>, <<" ", "=>">>, <<>>,
             <<"a", LINK_DELIM, "=>", "a", LINK_DELIM, " ", "a">>}
SentinelFreeBlocks(ls) ==
    \A i \in DOMAIN ls :
        Contains(ls[i], LINK_DELIM) =>
            Cardinality({j \in 1..(i-1) : StartsWith(ls[j], "FENCE")}) % 2 = 0
GemTexts == {p \o Join(NEWLINE, ls) :
                 p \in {<<>>, <<PARAGRAPH_DELIM, "a", PARAGRAPH_DELIM>>},
                 ls \in {l \in SeqsUpTo(GemLines, MaxGemLines) :
                             SentinelFreeBlocks(l)}}
InitCleanup == InitCall({<<"a">>}, {FALSE}, LinkModes, GemTexts)
SpecCleanup == InitCleanup /\ [][Next]_vars

-----------------------------------------------------------------------------
(* Vocabulary of the properties *)

\* the text the renderer returned for this call
Intermediate == Render(markdown, rendered)

\* its lines; the renderer puts no line break after a paragraph, so a paragraph
\* delimiter ends a line as well
IntermediateLines ==
    SplitLines(Replace(Intermediate, PARAGRAPH_DELIM, NEWLINE))

Markers(text) == Count(text, PARAGRAPH_DELIM)

\* position of the k-th paragraph delimiter of text
MarkerAt(text, k) ==
    CHOOSE i \in DOMAIN text :
        /\ text[i] = PARAGRAPH_DELIM
        /\ Cardinality({j \in 1..i : text[j] = PARAGRAPH_DELIM}) = k

Before(text)   == SubSeq(text, 1, MarkerAt(text, 1) - 1)
Enclosed(text) == SubSeq(text, MarkerAt(text, 1) + 1, MarkerAt(text, 2) - 1)
After(text)    == SubSeq(text, MarkerAt(text, 2) + 1, Len(text))

\* every line break replaced by one space, nothing else touched
FoldBreaks(s) == [i \in DOMAIN s |-> IF s[i] \in LineBreaks THEN " " ELSE s[i]]

\* s without its leading and trailing whitespace
Trimmed(s) ==
    IF \A i \in DOMAIN s : s[i] \in Whitespace THEN <<>>
    ELSE LET solid == {i \in DOMAIN s : s[i] \notin Whitespace}
             lo == CHOOSE i \in solid : \A j \in solid : i <= j
             hi == CHOOSE i \in solid : \A j \in solid : j <= i
         IN  SubSeq(s, lo, hi)

\* s holds some text and neither begins nor ends with a line break
HasInnerBreaksOnly(s) ==
    /\ \E i \in DOMAIN s : s[i] \notin Whitespace
    /\ s[1] \notin LineBreaks
    /\ s[Len(s)] \notin LineBreaks

\* an iteration of the paragraph loop that finds a whole marker pair
PairStep == pc = "paragraphs" /\ pc' = "paragraphs" /\ Markers(gemtext) >= 2

\* an iteration of the paragraph loop, whatever it finds
LoopStep == pc = "paragraphs" /\ pc' = "paragraphs"

IsFence(line) == line # <<>> /\ line[1] = "FENCE"
IsLinkLine(line) == line # <<>> /\ line[1] = "=>"
Indented(line) == line # <<>> /\ line[1] \in Whitespace

\* line i is a content line of a preformatted block: no fence line itself,
\* and an odd number of fence lines precede it
InsidePre(lines, i) ==
    /\ ~IsFence(lines[i])
    /\ Cardinality({j \in 1..(i-1) : IsFence(lines[j])}) % 2 = 1

\* the content lines of the closed preformatted blocks of lines, in order
ClosedPreContent(lines) ==
    LET fences == {j \in DOMAIN lines : IsFence(lines[j])}
        inside == {i \in DOMAIN lines :
                      /\ InsidePre(lines, i)
                      /\ \E j \in fences : j > i}
        pick(i) == i \in inside
        F[i \in 0..Len(lines)] ==
            IF i = 0 THEN <<>>
            ELSE IF pick(i) THEN Append(F[i-1], lines[i]) ELSE F[i-1]
    IN  F[Len(lines)]

-----------------------------------------------------------------------------
(* Properties *)

\* C1 (sentinel closure): whatever intermediate text the renderer returned and
\* whatever the link mode, the string md2gemini returns holds no paragraph
\* delimiter and no link delimiter.
C1_SentinelClosure ==
    pc = "done" => /\ ~Contains(gemtext, PARAGRAPH_DELIM)
                   /\ ~Contains(gemtext, LINK_DELIM)

\* a call that returned, whose intermediate text held both delimiters
C1_Witness ==
    /\ pc = "done"
    /\ Contains(Intermediate, PARAGRAPH_DELIM)
    /\ Contains(Intermediate, LINK_DELIM)
    /\ gemtext # <<>>

\* C2 (empty input): a call on the empty document raises no error and returns
\* the empty string, for every link mode, with front matter removal on or off.
C2_EmptyInputYieldsEmptyOutput ==
    input = <<>> => /\ pc # "error"
                    /\ pc = "done" => gemtext = <<>>

C4_FoldsEnclosedText ==
    [][(PairStep /\ HasInnerBreaksOnly(Enclosed(gemtext))) =>
         gemtext' = Before(gemtext) \o FoldBreaks(Enclosed(gemtext))
                        \o NEWLINE \o NEWLINE \o After(gemtext)]_vars

\* C4 as amended: the enclosed text first loses its leading and trailing
\* whitespace; every line break left in it becomes one space; two line breaks
\* follow; the text before and after the pair is unchanged.
C4_FoldsTrimmedText ==
    [][PairStep =>
         gemtext' = Before(gemtext) \o FoldBreaks(Trimmed(Enclosed(gemtext)))
                        \o NEWLINE \o NEWLINE \o After(gemtext)]_vars

\* a paragraph with a line break between two words has been resolved, with
\* text on both sides of it
C4_Witness ==
    /\ pc = "paragraphs"
    /\ Markers(Intermediate) = 2
    /\ \E i \in DOMAIN Enclosed(Intermediate) :
           /\ Enclosed(Intermediate)[i] \in LineBreaks
           /\ 1 < i /\ i < Len(Enclosed(Intermediate))
           /\ Enclosed(Intermediate)[i-1] = "a"
           /\ Enclosed(Intermediate)[i+1] = "a"
    /\ Markers(gemtext) = 0

\* C5 (front matter removal): with removal enabled, on a document without
\* surrounding whitespace whose first line opens front matter and which has a
\* later closing line, the text handed to the renderer consists of exactly the
\* lines after the first closing line, however many they are, zero included.
C5_FrontMatterRemoved ==
    LET lines == SplitLines(input)
        opens(l) == IF frontmatter THEN l \in {<<"---">>, <<"+++">>}
                    ELSE l = <<"---">>
        closes(l) == IF frontmatter THEN l \in {<<"---">>, <<"+++">>}
                     ELSE l = <<"---">>
        closers == {j \in 2..Len(lines) : closes(lines[j])}
        first == CHOOSE j \in closers : \A k \in closers : j <= k
    IN  ( /\ pc \notin {"frontmatter"}
          /\ frontmatter \/ jekyll
          /\ input = Trimmed(input)
          /\ lines # <<>> /\ opens(lines[1])
          /\ closers # {} )
        => /\ pc # "error"
           /\ SplitLines(markdown) = SubSeq(lines, first + 1, Len(lines))

\* C6 (front matter boundary): with removal enabled, on a document whose first
\* line is "---" and which has no later closing line, no error is raised and
\* the text handed to the renderer is the whole original document.
C6_UnclosedFrontMatterKept ==
    LET lines == SplitLines(input)
        closes(l) == IF frontmatter THEN l \in {<<"---">>, <<"+++">>}
                     ELSE l = <<"---">>
    IN  ( /\ pc # "frontmatter"
          /\ frontmatter \/ jekyll
          /\ lines # <<>> /\ lines[1] = <<"---">>
          /\ \A j \in 2..Len(lines) : ~closes(lines[j]) )
        => /\ pc # "error"
           /\ markdown = input

\* an unclosed front matter block with text below it went through
C6_Witness ==
    /\ pc = "render"
    /\ frontmatter
    /\ input = <<"---", "LF", "a">>
    /\ markdown = input

\* C7 (unbalanced sentinels are fatal): a call whose intermediate text holds an
\* odd number of paragraph delimiters never returns.
C7_UnbalancedIsFatal ==
    pc = "done" => Markers(Intermediate) % 2 = 0

\* C8 (link-boundary collapsing): after the collapsing step no two link
\* delimiters are adjacent, whatever the length of the run they came from.
C8_RunsCollapseToOne ==
    pc = "prune" =>
        \A i \in DOMAIN gemtext :
            ~(gemtext[i] = LINK_DELIM /\ i + 1 \in DOMAIN gemtext
                  /\ gemtext[i + 1] = LINK_DELIM)

\* C9 (leading-whitespace cleanup): in the returned text, the line after a
\* link line that is outside a preformatted block has no leading whitespace,
\* also when it is the last line.
C9_LineAfterLinkStripped ==
    pc = "done" =>
        LET out == SplitLines(gemtext)
        IN  \A i \in DOMAIN out :
                ( /\ i + 1 \in DOMAIN out
                  /\ IsLinkLine(out[i])
                  /\ ~InsidePre(out, i) )
                => ~Indented(out[i + 1])

\* C10 (paragraph resolution terminates): every iteration of the paragraph loop
\* removes exactly two delimiters, and the loop is left with none.
C10_PairPerIteration ==
    [][ /\ LoopStep => Markers(gemtext') = Markers(gemtext) - 2
        /\ (pc = "paragraphs" /\ pc' = "collapse") => Markers(gemtext) = 0 ]_vars

====
